---- MODULE Spec2Model ----
(***************************************************************************)
(* Model of the chunk -> index -> retrieve pipeline of yelp_rag.           *)
(*                                                                         *)
(*   Chunker       src/src/cleaning.py    CleanChunkYelpReviews            *)
(*   IndexBuilder  src/src/embeddings.py  CreateReviewEmbeddings           *)
(*   Retriever     src/src/retrieval.py   RetrieveRelevantText             *)
(*   Directories   src/src/directory_build.py  BuildDirectoryStructure     *)
(*   Pipeline      src/run_pipeline.py    YelpRAGPipelineRunner            *)
(*                                                                         *)
(* A text is a sequence of one-character strings.  A DataFrame is a        *)
(* sequence of records, one per row, in row order; its RangeIndex labels   *)
(* are the 0-based row positions.  Columns the modelled code only copies   *)
(* (restaurant_name, stars, date) are left out of the rows.                *)
(***************************************************************************)
EXTENDS Integers, Sequences, FiniteSets, TLC

VARIABLES
  stage,            \* which component this behaviour runs: "chunker" | "builder" |
                    \* "retriever" | "directory" | "pipeline"
  \* ---- Chunker: CleanChunkYelpReviews ----
  chunk_chars,      \* self.chunk_chars
  overlap_chars,    \* self.overlap_chars
  min_chunk_chars,  \* self.min_chunk_chars
  reviews,          \* the cleaned reviews DataFrame handed to generate_chunk_df
  divided,          \* return value of each divide_reviews_into_chunks call, in call order
  chunk_df,         \* the DataFrame generate_chunk_df returns
  chunk_pc,         \* "ready" | "done" | "error" (generate_chunk_df raised)
  \* ---- IndexBuilder: CreateReviewEmbeddings ----
  chunks_df,        \* the chunk corpus read by load_chunked_reviews_data
  faiss_files,      \* index directory: restaurant_id -> content of <id>.faiss
  meta_files,       \* index directory: restaurant_id -> content of <id>_meta.parquet
  embeddings,       \* local `embeddings` of create_faiss_for_yelp_reviews
  todo,             \* restaurant ids the groupby loop has still to visit, in order
  build_pc,         \* position inside create_faiss_for_yelp_reviews
  written,          \* files this build run has written: <<kind, restaurant_id>>
  built,            \* restaurant ids whose loop iteration this run has completed
  failure,          \* what ended this build run: "none" | "embedding" | "io" | "data"
  embedding_model_name,  \* self.embedding_model_name of the index builder
  normalize_embeddings,  \* self.normalize_embeddings of the index builder
  built_with,       \* index directory: restaurant_id -> the model and the
                    \* normalization the vectors of <id>.faiss were made with
  \* ---- Retriever: RetrieveRelevantText (reads faiss_files, meta_files) ----
  top_k_per_topic,       \* config.TOP_K_PER_TOPIC
  max_chunks_per_topic,  \* config.MAX_CHUNKS_PER_TOPIC
  max_chunks_per_review, \* config.MAX_CHUNKS_PER_REVIEW
  tie_order,        \* how this build's sort_values orders rows of equal score
  index_pairs,      \* local `index_pairs` of retrieve_topic_relevant_text
  query_embed,      \* local `query_embed`: topic -> query vector
  query_with,       \* the model and the normalization query_embed was made with
  pairs_todo,       \* index pairs the outer loop has still to visit, in order
  index,            \* local `index`: the vectors of the index read last
  meta,             \* local `meta`: the metadata table read last
  topics_todo,      \* topics the inner loop has still to visit for this entity
  result_df,        \* local `result_df`
  empties,          \* local `empties`: dict business_id -> topic
  searched,         \* (business_id, topic) pairs the inner loop has completed
  loaded,           \* business ids whose files this pass has read, in order
  output,           \* topic_relevant_review_chunks.parquet
  ret_pc,           \* position inside retrieve_topic_relevant_text
  ret_failure,      \* exception that ended this pass, or "none"
  pass,             \* "first" | "second" call of retrieve_topic_relevant_text
  first_pass,       \* how the first call ended: its ret_pc, ret_failure, result_df
  \* ---- BuildDirectoryStructure ----
  index_data_path,  \* self.index_data_path
  index_extensions, \* self.index_extensions
  dirs,             \* file system: path of a directory -> its entries
  dirs_before,      \* the file system when clean_index_directory was called
  to_visit,         \* entries the iterdir loop has still to yield
  clean_pc,         \* position inside clean_index_directory
  \* ---- Pipeline: YelpRAGPipelineRunner.run_pipeline ----
  random_state,     \* argument `random_state`
  call_keywords,    \* the keyword arguments of the call to run_pipeline
  stage_outputs,    \* stages whose output is on disk
  pipe_pc,          \* how many calls of the body of run_pipeline were made
  pipe_status,      \* "idle" | "called" | "running" | "raised" | "complete"
  pipe_error,       \* the exception that left run_pipeline, "none" if none
  completed         \* stages whose method has returned, in order

chunkerVars == <<chunk_chars, overlap_chars, min_chunk_chars, reviews, divided,
                 chunk_df, chunk_pc>>
builderVars == <<chunks_df, faiss_files, meta_files, embeddings, todo, build_pc,
                 written, built, failure, embedding_model_name,
                 normalize_embeddings, built_with>>
retrieverVars == <<top_k_per_topic, max_chunks_per_topic, max_chunks_per_review,
                   tie_order, index_pairs, query_embed, query_with, pairs_todo,
                   index, meta,
                   topics_todo, result_df, empties, searched, loaded, output,
                   ret_pc, ret_failure, pass, first_pass>>
directoryVars == <<index_data_path, index_extensions, dirs, dirs_before, to_visit,
                   clean_pc>>
pipelineVars == <<random_state, call_keywords, stage_outputs, pipe_pc, pipe_status,
                  pipe_error, completed>>
vars == <<stage, chunkerVars, builderVars, retrieverVars, directoryVars,
          pipelineVars>>

----------------------------------------------------------------------------
(* Bounds of the model *)

MaxRawLen == 3        \* longest raw review text enumerated
MinReviewChars == 1   \* self.min_review_chars, scaled to the enumerated texts
MaxChunkChars == 3    \* largest small chunk_chars enumerated
MaxOverlap == 2       \* largest small overlap_chars enumerated
MaxMinChunk == 1      \* largest small min_chunk_chars enumerated
MaxChunks == 2        \* most rows of a chunk corpus handed to the index builder
MaxRows == 3          \* most rows of a chunk table whose shards a retrieval pass reads
MaxTopK == 3          \* greatest TOP_K_PER_TOPIC of a retrieval pass
MaxPerTopic == 2      \* greatest MAX_CHUNKS_PER_TOPIC of a retrieval pass
MaxPerReview == 2     \* greatest MAX_CHUNKS_PER_REVIEW of a retrieval pass
MaxEntries == 3       \* most entries of a directory that is cleaned

(* config.py defaults *)
CHUNK_CHARS == 1000
OVERLAP_CHARS == 200
MIN_CHUNK_CHARS == 230

Alphabet == {"a", "b", "+", " "}
ReviewIdSeq == <<"r1", "r2">>
\* The restaurant ids, in the ascending order groupby and sorted() give them
RestaurantSeq == <<"biz1", "biz2">>
RestaurantIds == {RestaurantSeq[i] : i \in DOMAIN RestaurantSeq}

\* A file of the index directory: not there, cut short by a failed write, or
\* holding the rows (vectors) of a completed write.
AbsentFile == [state |-> "absent", content |-> <<>>]
PartialFile == [state |-> "partial", content |-> <<>>]
CompleteFile(content) == [state |-> "complete", content |-> content]

Min(a, b) == IF a < b THEN a ELSE b
Max(a, b) == IF a > b THEN a ELSE b

----------------------------------------------------------------------------
(* Python string primitives *)

\* s[a:b] for a str s: negative bounds count from the end, all bounds clamp.
PySlice(s, a, b) ==
  LET n  == Len(s)
      lo == IF a < 0 THEN Max(a + n, 0) ELSE Min(a, n)
      hi == IF b < 0 THEN Max(b + n, 0) ELSE Min(b, n)
  IN  IF lo < hi THEN SubSeq(s, lo + 1, hi) ELSE <<>>

RECURSIVE LStrip(_)
LStrip(s) == IF s # <<>> /\ Head(s) = " " THEN LStrip(Tail(s)) ELSE s

RECURSIVE RStrip(_)
RStrip(s) ==
  IF s # <<>> /\ s[Len(s)] = " " THEN RStrip(SubSeq(s, 1, Len(s) - 1)) ELSE s

\* str.strip()
Strip(s) == LStrip(RStrip(s))

\* str.replace(char, rep_str, regex = False) for a one-character `char`
RECURSIVE StrReplace(_, _, _)
StrReplace(s, char, rep) ==
  IF s = <<>> THEN <<>>
  ELSE (IF Head(s) = char THEN rep ELSE <<Head(s)>>) \o StrReplace(Tail(s), char, rep)

\* str.replace(r"\s+", " ", regex = True): every run of whitespace becomes one space
RECURSIVE CollapseWhitespace(_)
CollapseWhitespace(s) ==
  IF s = <<>> THEN <<>>
  ELSE IF Head(s) = " "
       THEN <<" ">> \o CollapseWhitespace(LStrip(s))
       ELSE <<Head(s)>> \o CollapseWhitespace(Tail(s))

----------------------------------------------------------------------------
(* Cleaning: the texts generate_chunk_df can be handed *)

RawTexts == UNION {[1..n -> Alphabet] : n \in 0..MaxRawLen}

\* clean_review_text on one row: TRUE when the row survives the length filter,
\* which runs on the stripped text, before the character replacements.
PassesLengthFilter(raw) == Len(Strip(raw)) >= MinReviewChars

\* clean_review_text on one surviving row: strip, replace the invalid
\* characters ("+" is the one in Alphabet), collapse whitespace, strip.
CleanReviewText(raw) ==
  Strip(CollapseWhitespace(StrReplace(Strip(raw), "+", <<>>)))

CleanedTexts == {CleanReviewText(raw) : raw \in {r \in RawTexts : PassesLengthFilter(r)}}

\* A cleaned review of 2500 characters (the length of the documented example);
\* "b" marks the square positions so that no two windows of it are equal.
LongText == [i \in 1..2500 |-> IF \E k \in 1..50 : k * k = i THEN "b" ELSE "a"]

ReviewTexts == CleanedTexts \cup {LongText}

----------------------------------------------------------------------------
(* Chunker: CleanChunkYelpReviews *)

\* chunk_dict.update({key: value}); a dict keeps its keys in insertion order
DictUpdate(chunk_dict, key, value) ==
  IF \E k \in DOMAIN chunk_dict : chunk_dict[k].chunk_index = key
  THEN [k \in DOMAIN chunk_dict |->
          IF chunk_dict[k].chunk_index = key
          THEN [chunk_index |-> key, chunk |-> value] ELSE chunk_dict[k]]
  ELSE Append(chunk_dict, [chunk_index |-> key, chunk |-> value])

\* One pass through the body of the while loop, up to the update of chunk_dict
\* (cc, oc, mc stand for self.chunk_chars, self.overlap_chars, self.min_chunk_chars).
ChunkLoopBody(text, char_idx, chunk_idx, chunk_dict, cc, oc, mc) ==
  LET upcoming_chunk_length == Len(text) - char_idx + oc
  IN  IF Len(text) <= cc
      THEN DictUpdate(chunk_dict, 0, text)
      ELSE IF char_idx = 0
      THEN DictUpdate(chunk_dict, chunk_idx, PySlice(text, 0, cc))
      ELSE IF upcoming_chunk_length > mc
      THEN DictUpdate(chunk_dict, chunk_idx,
                      PySlice(text, char_idx - oc, char_idx + cc - oc))
      ELSE chunk_dict

\* divide_reviews_into_chunks: the return statement is the last statement of
\* the loop body, so the function returns the frame built by the first pass;
\* when the loop is not entered it falls off its end and returns None.
DivideReviewsIntoChunks(text, cc, oc, mc) ==
  IF 0 < Len(text)
  THEN [returned |-> "DataFrame",
        rows |-> ChunkLoopBody(text, 0, 0, <<>>, cc, oc, mc)]
  ELSE [returned |-> "None", rows |-> <<>>]

\* The chunk id with the review id forgotten.
ChunkIdIndexOnly(review_id, chunk_index) == "chunk_" \o ToString(chunk_index)

\* f"{review_id}_{chunk_index}"
ChunkId(review_id, chunk_index) == review_id \o "_" \o ToString(chunk_index)

\* The rows one iteration of generate_chunk_df appends for `row`; the chunk_id
\* column is built once, from new_row["chunk_index"].values[0].
NewRows(row, frame) ==
  [k \in DOMAIN frame |->
     [chunk_index |-> frame[k].chunk_index,
      chunk       |-> frame[k].chunk,
      business_id |-> row.business_id,
      review_id   |-> row.review_id,
      chunk_id    |-> ChunkId(row.review_id, frame[1].chunk_index),
      n_chars     |-> Len(frame[k].chunk)]]

RECURSIVE ConcatFrames(_)
ConcatFrames(frames) ==
  IF frames = <<>> THEN <<>> ELSE Head(frames) \o ConcatFrames(Tail(frames))

\* All cleaned review frames: review ids are unique, and texts are distinct
\* because deduplicate_reviews has dropped the duplicates.  The reviews
\* belong to the restaurants in turn.
ReviewFrames ==
  UNION {
    { [i \in 1..n |-> [review_id   |-> ReviewIdSeq[i],
                       business_id |-> RestaurantSeq[((i - 1) % Len(RestaurantSeq)) + 1],
                       text        |-> t[i]]] :
        t \in { q \in [1..n -> ReviewTexts] :
                  \A i, j \in 1..n : i # j => q[i] # q[j] } }
    : n \in 0..Len(ReviewIdSeq) }

ParamSets ==
  ((-1..MaxChunkChars) \X (0..MaxOverlap) \X (0..MaxMinChunk))
    \cup {<<CHUNK_CHARS, OVERLAP_CHARS, MIN_CHUNK_CHARS>>}

\* config.EMBEDDING_MODEL_NAME and config.NORMALIZE_EMBEDDINGS, and a model
\* name given to the constructor in place of the first
EMBEDDING_MODEL_NAME == "all-MiniLM-L6-v2"
NORMALIZE_EMBEDDINGS == TRUE
OtherModelName == "all-mpnet-base-v2"

\* What a set of vectors was embedded with; NoSettings where there are none
NoSettings == [model |-> "none", normalize |-> FALSE]
ConfigSettings == [model |-> EMBEDDING_MODEL_NAME, normalize |-> NORMALIZE_EMBEDDINGS]

\* CreateReviewEmbeddings(embedding_model_name = ..., normalize_embeddings = ...):
\* an argument left None takes the value of config.py, any other is kept.
BuildSettings ==
  [model : {EMBEDDING_MODEL_NAME, OtherModelName}, normalize : {NORMALIZE_EMBEDDINGS, FALSE}]

\* model = load_embedding_model(self.embedding_model_name, ...);
\* embed_texts(model, texts, ..., normalize_flag = self.normalize_embeddings)
EmbedSettings == [model |-> embedding_model_name, normalize |-> normalize_embeddings]

\* model = load_embedding_model(config.EMBEDDING_MODEL_NAME, ...);
\* model.encode([keywords], ..., normalize_embeddings = True)
QuerySettings == [model |-> EMBEDDING_MODEL_NAME, normalize |-> TRUE]

\* The settings of the index files of a directory all written by builds
\* that were given `settings`
BuiltWith(files, settings) ==
  [r \in RestaurantIds |-> IF files[r] = AbsentFile THEN NoSettings ELSE settings]

BuilderIdle ==
  /\ chunks_df = <<>>
  /\ faiss_files = [r \in RestaurantIds |-> AbsentFile]
  /\ meta_files = [r \in RestaurantIds |-> AbsentFile]
  /\ embedding_model_name = EMBEDDING_MODEL_NAME
  /\ normalize_embeddings = NORMALIZE_EMBEDDINGS
  /\ built_with = [r \in RestaurantIds |-> NoSettings]
  /\ embeddings = <<>>
  /\ todo = <<>>
  /\ build_pc = "idle"
  /\ written = {}
  /\ built = {}
  /\ failure = "none"

\* The record of a call that has not been made
NoPass == [pc |-> "none", failure |-> "none", result_df |-> <<>>]

\* config.TOP_K_PER_TOPIC, MAX_CHUNKS_PER_TOPIC and MAX_CHUNKS_PER_REVIEW (25,
\* 12 and 1 in config.py) are read when a retrieval pass runs; no retrieval
\* runs in the other components.
RetrieverIdle ==
  /\ top_k_per_topic = 1
  /\ max_chunks_per_topic = 1
  /\ max_chunks_per_review = 1
  /\ tie_order = "kept"
  /\ index_pairs = <<>>
  /\ query_embed = <<>>
  /\ query_with = NoSettings
  /\ pairs_todo = <<>>
  /\ index = <<>>
  /\ meta = <<>>
  /\ topics_todo = <<>>
  /\ result_df = <<>>
  /\ empties = <<>>
  /\ searched = <<>>
  /\ loaded = <<>>
  /\ output = AbsentFile
  /\ ret_pc = "idle"
  /\ ret_failure = "none"
  /\ pass = "first"
  /\ first_pass = NoPass

\* config.INDEX_DIR, and a directory given as index_data_path in its place
INDEX_DIR == "indexes"
OtherIndexDir == "other_indexes"
DirPaths == {INDEX_DIR, OtherIndexDir}

\* config.INDEX_EXTENSIONS
INDEX_EXTENSIONS == {".faiss", ".parquet"}

\* A BuildDirectoryStructure object built with the defaults, not cleaning
DirectoryIdle ==
  /\ index_data_path = INDEX_DIR
  /\ index_extensions = INDEX_EXTENSIONS
  /\ dirs = [p \in DirPaths |-> {}]
  /\ dirs_before = [p \in DirPaths |-> {}]
  /\ to_visit = {}
  /\ clean_pc = "idle"

\* The five stages of run_pipeline, in the order of its body
StageSeq == <<"import_sample", "clean_chunk", "embed_index", "retrieve", "summarize">>
Stages == {StageSeq[i] : i \in DOMAIN StageSeq}

\* No call to run_pipeline is made
PipelineIdle ==
  /\ random_state = 0
  /\ call_keywords = {}
  /\ stage_outputs = {}
  /\ pipe_pc = 0
  /\ pipe_status = "idle"
  /\ pipe_error = "none"
  /\ completed = <<>>

InitChunker ==
  /\ stage = "chunker"
  /\ \E p \in ParamSets :
       /\ chunk_chars = p[1]
       /\ overlap_chars = p[2]
       /\ min_chunk_chars = p[3]
  /\ reviews \in ReviewFrames
  /\ divided = <<>>
  /\ chunk_df = <<>>
  /\ chunk_pc = "ready"
  /\ BuilderIdle
  /\ RetrieverIdle
  /\ DirectoryIdle
  /\ PipelineIdle

\* generate_chunk_df(reviews).  new_row is the return value of
\* divide_reviews_into_chunks; when that is None the column assignment on the
\* next line raises TypeError and no frame is returned.
GenerateChunkDf ==
  /\ stage = "chunker"
  /\ chunk_pc = "ready"
  /\ LET call(i) == DivideReviewsIntoChunks(reviews[i].text, chunk_chars,
                                            overlap_chars, min_chunk_chars)
         nones == {i \in DOMAIN reviews : call(i).returned = "None"}
         last == IF nones = {} THEN Len(reviews)
                 ELSE CHOOSE i \in nones : \A j \in nones : i <= j
     IN  /\ divided' = [i \in 1..last |-> call(i)]
         /\ IF nones = {}
            THEN /\ chunk_df' = ConcatFrames([i \in 1..last |->
                                                NewRows(reviews[i], call(i).rows)])
                 /\ chunk_pc' = "done"
            ELSE /\ chunk_df' = <<>>
                 /\ chunk_pc' = "error"
  /\ UNCHANGED <<stage, pipelineVars, chunk_chars, overlap_chars, min_chunk_chars, reviews>>
  /\ UNCHANGED <<builderVars, retrieverVars, directoryVars, pipelineVars>>

NextChunker == GenerateChunkDf

SpecChunker == InitChunker /\ [][NextChunker]_vars

----------------------------------------------------------------------------
(* Chunker claims *)

\* The parameter sets the chunker is specified to accept.
ValidParams == chunk_chars > 0 /\ overlap_chars < chunk_chars

\* The text handed to, and the frame returned by, the i-th call of
\* divide_reviews_into_chunks.
TextOf(i) == reviews[i].text
FrameOf(i) == divided[i].rows

\* C1: for every review text and every valid parameter set,
\* divide_reviews_into_chunks returns the complete sequence of chunks: a text
\* longer than chunk_chars yields more than one chunk, never only chunk 0.
C1_CompleteChunkSequence ==
  ValidParams =>
    \A i \in DOMAIN divided :
      Len(TextOf(i)) > chunk_chars =>
        divided[i].returned = "DataFrame" /\ Len(FrameOf(i)) > 1

\* C2: for a text longer than chunk_chars, chunk i is the window of
\* chunk_chars characters starting at i * (chunk_chars - overlap_chars), and
\* for length 2500, chunk_chars 1000, overlap_chars 200 the chunks returned
\* are exactly those starting at 0, 800 and 1600.
C2_ChunkStarts ==
  ValidParams =>
    \A i \in DOMAIN divided :
      Len(TextOf(i)) > chunk_chars =>
        /\ \A k \in DOMAIN FrameOf(i) :
             LET start == FrameOf(i)[k].chunk_index * (chunk_chars - overlap_chars)
             IN  FrameOf(i)[k].chunk = PySlice(TextOf(i), start, start + chunk_chars)
        /\ (Len(TextOf(i)) = 2500 /\ chunk_chars = 1000 /\ overlap_chars = 200) =>
             [k \in DOMAIN FrameOf(i) |->
                FrameOf(i)[k].chunk_index * (chunk_chars - overlap_chars)]
               = <<0, 800, 1600>>

\* C3: for every text of length at most chunk_chars,
\* divide_reviews_into_chunks returns exactly one chunk, with chunk_index 0
\* and text equal to the whole input (stated for the valid parameter sets).
C3_ShortTextOneChunk ==
  ValidParams =>
    \A i \in DOMAIN divided :
      Len(TextOf(i)) <= chunk_chars =>
        /\ divided[i].returned = "DataFrame"
        /\ FrameOf(i) = <<[chunk_index |-> 0, chunk |-> TextOf(i)]>>

\* C4: every chunk of the corpus has n_chars at most chunk_chars, and every
\* chunk of a review other than the review's last chunk has n_chars exactly
\* chunk_chars.
C4_ChunkSizeBound ==
  \A k \in DOMAIN chunk_df :
    /\ chunk_df[k].n_chars <= chunk_chars
    /\ (\E j \in DOMAIN chunk_df :
          j > k /\ chunk_df[j].review_id = chunk_df[k].review_id)
         => chunk_df[k].n_chars = chunk_chars

\* The chunks' non-overlap regions, concatenated in chunk order: all of the
\* first chunk, and of each later chunk what follows its first oc characters.
RECURSIVE NonOverlapConcat(_, _)
NonOverlapConcat(frame, oc) ==
  IF frame = <<>> THEN <<>>
  ELSE NonOverlapConcat(SubSeq(frame, 1, Len(frame) - 1), oc)
         \o (IF Len(frame) = 1 THEN frame[1].chunk
             ELSE PySlice(frame[Len(frame)].chunk, oc, Len(frame[Len(frame)].chunk)))

\* C5: for every review text, concatenating in chunk order the part of each
\* returned chunk that does not overlap the previous chunk reconstructs the
\* original text exactly (stated for the valid parameter sets).
C5_CoverageReconstructs ==
  ValidParams =>
    \A i \in DOMAIN divided :
      NonOverlapConcat(FrameOf(i), overlap_chars) = TextOf(i)

\* C6: chunking fails fast with a configuration error, before producing any
\* chunk, whenever chunk_chars <= 0 or overlap_chars >= chunk_chars: with such
\* parameters no call returns a frame of chunks and no corpus is built.
C6_InvalidParamsFailFast ==
  (chunk_chars <= 0 \/ overlap_chars >= chunk_chars) =>
    /\ \A i \in DOMAIN divided : divided[i].returned # "DataFrame"
    /\ chunk_df = <<>>

\* C7: in the corpus generate_chunk_df returns, every row's chunk_id is formed
\* from that row's review_id and that row's own chunk_index, and no two rows
\* share a chunk_id.
C7_ChunkIdFormedAndUnique ==
  chunk_pc = "done" =>
    /\ \A k \in DOMAIN chunk_df :
         chunk_df[k].chunk_id =
           chunk_df[k].review_id \o "_" \o ToString(chunk_df[k].chunk_index)
    /\ \A j, k \in DOMAIN chunk_df :
         j # k => chunk_df[j].chunk_id # chunk_df[k].chunk_id

\* C7 witness: a returned corpus with rows of two reviews, one of them cut
\* from a text longer than chunk_chars.
C7_Witness ==
  /\ chunk_pc = "done"
  /\ Len(chunk_df) >= 2
  /\ \E i \in DOMAIN reviews : Len(reviews[i].text) > chunk_chars
  /\ ValidParams

----------------------------------------------------------------------------
(* IndexBuilder: CreateReviewEmbeddings *)

CountOf(text, ch) == Cardinality({i \in DOMAIN text : text[i] = ch})

\* model.encode on one text.  The embedding provider is external and
\* deterministic; it is modelled by the counts of "a" and of "b" in the text,
\* a function that, like an embedding, need not tell two texts apart.
Embed(text) == <<CountOf(text, "a"), CountOf(text, "b")>>

\* embed_texts(model, texts): one vector per text, in the order of texts
EmbedTexts(texts) == [i \in DOMAIN texts |-> Embed(texts[i])]

\* chunks_df["chunk"].tolist()
ChunkTexts(df) == [i \in DOMAIN df |-> df[i].chunk]

\* The keys of chunks_df.groupby(col_restaurant_id).groups, in sorted order
GroupKeys(df) ==
  SelectSeq(RestaurantSeq, LAMBDA r : \E i \in DOMAIN df : df[i].business_id = r)

\* list(idx): the index labels of restaurant_id's rows, ascending.  The
\* corpus is read back with the RangeIndex it was written with, so the label
\* of a row is its 0-based position.
IdxList(df, restaurant_id) ==
  SelectSeq([i \in DOMAIN df |-> i - 1],
            LAMBDA label : df[label + 1].business_id = restaurant_id)

\* The first len(idx_list) rows of the array instead of the group's rows.
XRFirstRows(embeds, idx_list) == [k \in DOMAIN idx_list |-> embeds[k]]

\* X_r = embeddings[idx_list]: positional rows of the embedding array
XR(embeds, idx_list) == [k \in DOMAIN idx_list |-> embeds[idx_list[k] + 1]]

\* meta_r = chunks_df.loc[idx_list].copy(), then reset_index(drop = True)
MetaR(df, idx_list) == [k \in DOMAIN idx_list |-> df[idx_list[k] + 1]]

\* build_faiss_index(X_r): a flat index holds the vectors in the order added
BuildFaissIndex(X) == X

\* What a completed loop iteration for restaurant_id leaves in the directory
IndexFileOf(df, restaurant_id) ==
  CompleteFile(BuildFaissIndex(XR(EmbedTexts(ChunkTexts(df)), IdxList(df, restaurant_id))))
MetaFileOf(df, restaurant_id) ==
  CompleteFile(MetaR(df, IdxList(df, restaurant_id)))

\* The chunk corpora generate_chunk_df can have written: one row per review
CorpusTexts == {<<"a">>, <<"a", "b">>}
ReviewId(i) == "r" \o ToString(i)
ChunkCorpora ==
  UNION {
    { ConcatFrames([i \in 1..n |->
         NewRows([review_id |-> ReviewId(i), business_id |-> p[1][i]],
                 <<[chunk_index |-> 0, chunk |-> p[2][i]]>>)]) :
        p \in [1..n -> RestaurantIds] \X [1..n -> CorpusTexts] }
    : n \in 0..MaxChunks }

\* The index directory an earlier run over corpus df has left, starting from
\* the empty directory: the first k groups completed, and the next group in
\* the state `tail` ("clean": untouched; "index_partial": its index write
\* failed half-way; "index_only": its metadata write failed before creating
\* the file; "meta_partial": its metadata write failed half-way).
EarlierRun(df, k, tail) ==
  LET keys == GroupKeys(df)
      done(r) == \E j \in 1..Min(k, Len(keys)) : keys[j] = r
      faissOf(r) ==
        IF done(r) THEN IndexFileOf(df, r)
        ELSE IF k < Len(keys) /\ keys[k + 1] = r /\ tail # "clean"
        THEN (IF tail = "index_partial" THEN PartialFile ELSE IndexFileOf(df, r))
        ELSE AbsentFile
      metaOf(r) ==
        IF done(r) THEN MetaFileOf(df, r)
        ELSE IF k < Len(keys) /\ keys[k + 1] = r /\ tail = "meta_partial"
        THEN PartialFile
        ELSE AbsentFile
  IN  [faiss |-> [r \in RestaurantIds |-> faissOf(r)],
       meta  |-> [r \in RestaurantIds |-> metaOf(r)]]

\* The directories a run can start in: nothing removes index files between
\* runs of the pipeline, so a run finds what the run before it left.
PriorDirs ==
  { EarlierRun(df, k, tail) :
      df \in ChunkCorpora, k \in 0..Len(RestaurantSeq),
      tail \in {"clean", "index_partial", "index_only", "meta_partial"} }

\* The positions of create_faiss_for_yelp_reviews at which the embedding
\* provider is called: once, for all texts, before the loop over restaurants.
EmbedCallSitesInLoop == {"embed", "write_meta"}
EmbedCallSites == {"embed"}

ChunkerIdle ==
  /\ chunk_chars = CHUNK_CHARS
  /\ overlap_chars = OVERLAP_CHARS
  /\ min_chunk_chars = MIN_CHUNK_CHARS
  /\ reviews = <<>>
  /\ divided = <<>>
  /\ chunk_df = <<>>
  /\ chunk_pc = "idle"

InitBuilder ==
  /\ stage = "builder"
  /\ ChunkerIdle
  /\ chunks_df \in ChunkCorpora
  /\ \E d \in PriorDirs :
       /\ faiss_files = d.faiss /\ meta_files = d.meta
       /\ built_with = BuiltWith(d.faiss, ConfigSettings)
  /\ \E s \in BuildSettings :
       embedding_model_name = s.model /\ normalize_embeddings = s.normalize
  /\ embeddings = <<>>
  /\ todo = <<>>
  /\ build_pc = "load"
  /\ written = {}
  /\ built = {}
  /\ failure = "none"
  /\ RetrieverIdle
  /\ DirectoryIdle
  /\ PipelineIdle

\* chunks_df = load_chunked_reviews_data(); texts = chunks_df["chunk"].tolist()
LoadChunkedReviewsData ==
  /\ stage = "builder" /\ build_pc = "load"
  /\ chunks_df # <<>>
  /\ build_pc' = "embed"
  /\ UNCHANGED <<stage, pipelineVars, chunkerVars, retrieverVars, directoryVars,
                 embedding_model_name, normalize_embeddings, built_with,
                 chunks_df, faiss_files, meta_files, embeddings,
                 todo, written, built, failure>>

\* The corpus of an empty review frame is a frame without columns:
\* chunks_df["chunk"] raises KeyError.
LoadChunkedReviewsDataFails ==
  /\ stage = "builder" /\ build_pc = "load"
  /\ chunks_df = <<>>
  /\ build_pc' = "aborted"
  /\ failure' = "data"
  /\ UNCHANGED <<stage, pipelineVars, chunkerVars, retrieverVars, directoryVars,
                 embedding_model_name, normalize_embeddings, built_with,
                 chunks_df, faiss_files, meta_files, embeddings,
                 todo, written, built>>

\* load_embedding_model and embed_texts return; the groupby loop is entered.
EmbedAllTexts ==
  /\ stage = "builder" /\ build_pc = "embed"
  /\ embeddings' = EmbedTexts(ChunkTexts(chunks_df))
  /\ todo' = GroupKeys(chunks_df)
  /\ build_pc' = "write_index"
  /\ UNCHANGED <<stage, pipelineVars, chunkerVars, retrieverVars, directoryVars,
                 embedding_model_name, normalize_embeddings, built_with,
                 chunks_df, faiss_files, meta_files, written,
                 built, failure>>

\* The embedding provider raises; nothing catches it, the run ends.
EmbeddingProviderFails ==
  /\ stage = "builder" /\ build_pc \in EmbedCallSites
  /\ build_pc' = "aborted"
  /\ failure' = "embedding"
  /\ UNCHANGED <<stage, pipelineVars, chunkerVars, retrieverVars, directoryVars,
                 embedding_model_name, normalize_embeddings, built_with,
                 chunks_df, faiss_files, meta_files, embeddings,
                 todo, written, built>>

\* index = build_faiss_index(X_r); faiss.write_index(index, <id>.faiss)
WriteIndex ==
  /\ stage = "builder" /\ build_pc = "write_index"
  /\ LET restaurant_id == Head(todo)
         X_r == XR(embeddings, IdxList(chunks_df, restaurant_id))
     IN  /\ faiss_files' = [faiss_files EXCEPT
                              ![restaurant_id] = CompleteFile(BuildFaissIndex(X_r))]
         /\ written' = written \cup {<<"faiss", restaurant_id>>}
         /\ built_with' = [built_with EXCEPT ![restaurant_id] = EmbedSettings]
  /\ build_pc' = "write_meta"
  /\ UNCHANGED <<stage, pipelineVars, chunkerVars, retrieverVars, directoryVars,
                 embedding_model_name, normalize_embeddings, chunks_df,
                 meta_files, embeddings, todo, built, failure>>

\* faiss.write_index raises OSError: before the file is opened (it is left
\* as it was) or while it is written (it is left cut short).
WriteIndexFails ==
  /\ stage = "builder" /\ build_pc = "write_index"
  /\ LET restaurant_id == Head(todo)
     IN  \/ UNCHANGED <<faiss_files, written>>
         \/ /\ faiss_files' = [faiss_files EXCEPT ![restaurant_id] = PartialFile]
            /\ written' = written \cup {<<"faiss", restaurant_id>>}
  /\ build_pc' = "aborted"
  /\ failure' = "io"
  /\ UNCHANGED <<stage, pipelineVars, chunkerVars, retrieverVars, directoryVars,
                 embedding_model_name, normalize_embeddings, built_with,
                 chunks_df, meta_files, embeddings, todo, built>>

\* meta_r.reset_index(drop = True).to_parquet(<id>_meta.parquet); the loop
\* goes on to the next restaurant, or ends.
WriteMeta ==
  /\ stage = "builder" /\ build_pc = "write_meta"
  /\ LET restaurant_id == Head(todo)
         meta_r == MetaR(chunks_df, IdxList(chunks_df, restaurant_id))
     IN  /\ meta_files' = [meta_files EXCEPT ![restaurant_id] = CompleteFile(meta_r)]
         /\ written' = written \cup {<<"meta", restaurant_id>>}
         /\ built' = built \cup {restaurant_id}
  /\ todo' = Tail(todo)
  /\ build_pc' = IF Tail(todo) = <<>> THEN "count" ELSE "write_index"
  /\ UNCHANGED <<stage, pipelineVars, chunkerVars, retrieverVars, directoryVars,
                 embedding_model_name, normalize_embeddings, built_with,
                 chunks_df, faiss_files, embeddings, failure>>

\* to_parquet raises OSError, before or while the file is written.
WriteMetaFails ==
  /\ stage = "builder" /\ build_pc = "write_meta"
  /\ LET restaurant_id == Head(todo)
     IN  \/ UNCHANGED <<meta_files, written>>
         \/ /\ meta_files' = [meta_files EXCEPT ![restaurant_id] = PartialFile]
            /\ written' = written \cup {<<"meta", restaurant_id>>}
  /\ build_pc' = "aborted"
  /\ failure' = "io"
  /\ UNCHANGED <<stage, pipelineVars, chunkerVars, retrieverVars, directoryVars,
                 embedding_model_name, normalize_embeddings, built_with,
                 chunks_df, faiss_files, embeddings, todo, built>>

\* The two glob counts are printed and the function returns True.
ReportCounts ==
  /\ stage = "builder" /\ build_pc = "count"
  /\ build_pc' = "done"
  /\ UNCHANGED <<stage, pipelineVars, chunkerVars, retrieverVars, directoryVars,
                 embedding_model_name, normalize_embeddings, built_with,
                 chunks_df, faiss_files, meta_files, embeddings,
                 todo, written, built, failure>>

NextBuilder ==
  \/ LoadChunkedReviewsData
  \/ LoadChunkedReviewsDataFails
  \/ EmbedAllTexts
  \/ EmbeddingProviderFails
  \/ WriteIndex
  \/ WriteIndexFails
  \/ WriteMeta
  \/ WriteMetaFails
  \/ ReportCounts

SpecBuilder == InitBuilder /\ [][NextBuilder]_vars

----------------------------------------------------------------------------
(* IndexBuilder claims *)

\* C8: for every entity built by create_faiss_for_yelp_reviews, the persisted
\* index holds exactly as many vectors as the persisted metadata table has
\* rows, and the vector at position i is the embedding of the chunk described
\* by metadata row i (a chunk of that entity).
C8_IndexMetadataAligned ==
  \A r \in built :
    /\ faiss_files[r].state = "complete"
    /\ meta_files[r].state = "complete"
    /\ Len(faiss_files[r].content) = Len(meta_files[r].content)
    /\ \A i \in DOMAIN meta_files[r].content :
         /\ faiss_files[r].content[i] = Embed(meta_files[r].content[i].chunk)
         /\ meta_files[r].content[i].business_id = r

\* C8 witness: a finished run that built two entities whose chunks differ.
C8_Witness ==
  /\ build_pc = "done"
  /\ built = RestaurantIds
  /\ \E i, j \in DOMAIN chunks_df : chunks_df[i].chunk # chunks_df[j].chunk

\* C9: after any build run, including one interrupted by an I/O failure at
\* any write step, the index directory holds no index file without its
\* metadata file and no metadata file without its index file; stated for the
\* entities the run wrote a file of, and for an index file written in full.
C9_IndexAndMetadataPaired ==
  build_pc \in {"done", "aborted"} =>
    \A r \in RestaurantIds :
      (<<"faiss", r>> \in written \/ <<"meta", r>> \in written) =>
        /\ faiss_files[r].state = "complete" => meta_files[r].state # "absent"
        /\ meta_files[r].state # "absent" => faiss_files[r].state # "absent"

\* C10: if the embedding provider fails during a build, the whole build
\* aborts and no entity's index file or metadata file is written by that
\* build.
C10_EmbeddingFailureWritesNothing ==
  failure = "embedding" =>
    /\ build_pc = "aborted"
    /\ written = {}
    /\ built = {}

\* C10 witness: the provider failed in a run over a corpus of two entities.
C10_Witness ==
  /\ failure = "embedding"
  /\ Len(GroupKeys(chunks_df)) = Len(RestaurantSeq)

\* faiss_created = list(index_dir.glob("*.faiss")) and
\* meta_created = list(index_dir.glob("*.parquet")): every file of the
\* directory with that suffix, whatever run wrote it and however much of it.
FaissCreated(files) == {r \in RestaurantIds : files[r].state # "absent"}
MetaCreated(files) == {r \in RestaurantIds : files[r].state # "absent"}

\* C11: if writing one entity's index or metadata file fails during a build,
\* the files already written for other entities stay as they were written,
\* the build goes on to write the shards of the remaining entities, and the
\* failure is recorded; stated at the end of the run.
C11_WriteFailureIsolated ==
  (failure = "io" /\ build_pc \in {"done", "aborted"}) =>
    /\ \A r \in built :
         /\ faiss_files[r] = IndexFileOf(chunks_df, r)
         /\ meta_files[r] = MetaFileOf(chunks_df, r)
    /\ \A k \in 2..Len(todo) : todo[k] \in built

\* C12: at the end of a build, if the number of index files in the index
\* directory differs from the number of metadata files, the function does
\* not return success.
C12_CountMismatchIsBuildError ==
  build_pc = "done" =>
    Cardinality(FaissCreated(faiss_files)) = Cardinality(MetaCreated(meta_files))

----------------------------------------------------------------------------
(* Retriever: RetrieveRelevantText *)

\* config.TOPICS: topic -> keyword text, in the order of the dict
TopicSeq == <<"food", "service", "ambiance">>
TOPICS == [food |-> <<"a">>, service |-> <<"b">>, ambiance |-> <<"a", "b">>]

\* The chunk tables of the schema the index builder persists, of up to
\* MaxRows rows: a row starts a new review (named after the row) or is the
\* next chunk of the review, and the restaurant, of the row before it.
ChunkTextSeq == <<<<"a">>, <<"a", "b">>, <<"b">>>>
ChunkTextAt(i) == ChunkTextSeq[((i - 1) % Len(ChunkTextSeq)) + 1]
RetrieverCorpora ==
  UNION {
    { [i \in 1..n |->
         [chunk_index |-> i - p[2][i],
          chunk       |-> ChunkTextAt(i),
          business_id |-> p[1][i],
          review_id   |-> ReviewId(p[2][i]),
          chunk_id    |-> ChunkId(ReviewId(p[2][i]), i - p[2][i]),
          n_chars     |-> Len(ChunkTextAt(i))]] :
        p \in { q \in [1..n -> RestaurantIds] \X [1..n -> 1..n] :
                  \A i \in 1..n :
                    \/ q[2][i] = i
                    \/ i > 1 /\ q[2][i] = q[2][i - 1] /\ q[1][i] = q[1][i - 1] } }
    : n \in 0..MaxRows }

\* The directory after a complete build over df without its last row and
\* then a build over df that completed its first k groups and, in the next
\* group, wrote the index file and failed to create the metadata file.
StaleRun(df, k) ==
  LET keys == GroupKeys(df)
      df0 == SubSeq(df, 1, Len(df) - 1)
      old == EarlierRun(df0, Len(RestaurantSeq), "clean")
      done(r) == \E j \in 1..Min(k, Len(keys)) : keys[j] = r
      next(r) == k < Len(keys) /\ keys[k + 1] = r
  IN  [faiss |-> [r \in RestaurantIds |->
                    IF done(r) \/ next(r) THEN IndexFileOf(df, r) ELSE old.faiss[r]],
       meta  |-> [r \in RestaurantIds |->
                    IF done(r) THEN MetaFileOf(df, r) ELSE old.meta[r]]]

\* The index directories a retrieval pass can find: what build runs left.
RetrieverDirs ==
  { EarlierRun(df, k, tail) :
      df \in RetrieverCorpora, k \in 0..Len(RestaurantSeq),
      tail \in {"clean", "index_partial", "index_only", "meta_partial"} }
  \cup { StaleRun(df, k) : df \in RetrieverCorpora \ {<<>>}, k \in 0..Len(RestaurantSeq) }

\* sorted(self.index_path.glob("*.faiss")): glob yields the paths in the
\* order of the file system, sorted() puts them in ascending order.
UnsortedPaths(listing) == listing
SortedPaths(listing) ==
  SelectSeq(RestaurantSeq, LAMBDA r : \E i \in DOMAIN listing : listing[i] = r)

\* The orders in which glob can yield the *.faiss files of the directory
GlobListings(files) ==
  LET found == FaissCreated(files)
  IN  { l \in [1..Cardinality(found) -> found] :
          \A i, j \in DOMAIN l : i # j => l[i] # l[j] }

\* model.encode([keywords], normalize_embeddings = True) for each topic
QueryVectors == [t \in DOMAIN TOPICS |-> Embed(TOPICS[t])]

\* Inner product of a stored vector and a query vector
Dot(u, v) == u[1] * v[1] + u[2] * v[2]

\* What index.search puts in the places it has no hit for: label -1 and a
\* score below every score (-FLT_MAX).
PadHit == [scores |-> -1, indicies |-> -1]

\* D, I = index.search(q, k): the k stored vectors of greatest inner product
\* with q, greatest first, equal products by ascending position; the places
\* beyond the number of stored vectors hold PadHit.  Positions are 0-based.
IndexSearch(idx, q, k) ==
  LET score(p) == Dot(idx[p], q)
      before(a, b) == score(a) > score(b) \/ (score(a) = score(b) /\ a < b)
      rank(p) == Cardinality({o \in DOMAIN idx : before(o, p)})
      hit(j) == LET p == CHOOSE p \in DOMAIN idx : rank(p) = j - 1
                IN  [scores |-> score(p), indicies |-> p - 1]
  IN  [j \in 1..k |-> IF j <= Len(idx) THEN hit(j) ELSE PadHit]

\* metadata.iloc[df["indicies"]] raises IndexError when a position is out of
\* bounds; position -1 is the last row.
IlocInBounds(hits, metadata) ==
  \A j \in DOMAIN hits :
    /\ hits[j].indicies < Len(metadata)
    /\ 0 - Len(metadata) <= hits[j].indicies

\* pd.DataFrame({"scores", "indicies"}).assign(<metadata columns>)
JoinMetadata(hits, metadata) ==
  [j \in DOMAIN hits |->
     LET row == IF hits[j].indicies < 0
                THEN metadata[Len(metadata) + hits[j].indicies + 1]
                ELSE metadata[hits[j].indicies + 1]
     IN  [scores      |-> hits[j].scores,
          indicies    |-> hits[j].indicies,
          chunk_id    |-> row.chunk_id,
          business_id |-> row.business_id,
          review_id   |-> row.review_id,
          chunk       |-> row.chunk]]

\* df.sort_values(by = "scores", ascending = False): the default algorithm
\* (quicksort) is not stable; rows of equal score come out in the order this
\* build's sort puts them in ("kept": as they were; "swapped": the other way).
SortValues(df, order) ==
  LET before(a, b) == \/ df[a].scores > df[b].scores
                      \/ /\ df[a].scores = df[b].scores
                         /\ IF order = "kept" THEN a < b ELSE a > b
      rank(p) == Cardinality({o \in DOMAIN df : before(o, p)})
  IN  [j \in DOMAIN df |-> df[CHOOSE p \in DOMAIN df : rank(p) = j - 1]]

\* The rows of df at the positions in keep, in the order of df
RowsAt(df, keep) ==
  [j \in 1..Cardinality(keep) |->
     df[CHOOSE p \in keep : Cardinality({o \in keep : o < p}) = j - 1]]

\* The frame with no row of a review dropped.
GroupbyHeadAll(df, n) == df

\* df.groupby("review_id", as_index = False).head(n): the first n rows of
\* each review, in the order of df
GroupbyHead(df, n) ==
  RowsAt(df, {p \in DOMAIN df :
                Cardinality({o \in 1..(p - 1) : df[o].review_id = df[p].review_id}) < n})

\* convert_similarity_arrays_to_df(D, I, metadata, metadata_cols)
ConvertSimilarityArraysToDf(hits, metadata, order, per_review) ==
  GroupbyHead(SortValues(JoinMetadata(hits, metadata), order), per_review)

\* df.insert(0, "topic", topic)
InsertTopic(df, topic) ==
  [j \in DOMAIN df |->
     [topic       |-> topic,
      scores      |-> df[j].scores,
      indicies    |-> df[j].indicies,
      chunk_id    |-> df[j].chunk_id,
      business_id |-> df[j].business_id,
      review_id   |-> df[j].review_id,
      chunk       |-> df[j].chunk]]

\* The frame with no row cut off.
IlocAll(df, n) == df

\* df.iloc[:n]
IlocHead(df, n) == SubSeq(df, 1, Min(n, Len(df)))

\* The rows of a topic with the frame cut to per_topic rows before the rows
\* of each review are counted.
TopicRowsCapFirst(hits, metadata, order, per_review, per_topic, topic) ==
  InsertTopic(GroupbyHead(IlocHead(SortValues(JoinMetadata(hits, metadata), order),
                                   per_topic),
                          per_review),
              topic)

\* The rows one pass through the topic loop appends to result_df: the frame
\* convert_similarity_arrays_to_df returns, with the topic column, cut to
\* per_topic rows
TopicRows(hits, metadata, order, per_review, per_topic, topic) ==
  IlocHead(InsertTopic(ConvertSimilarityArraysToDf(hits, metadata, order, per_review),
                       topic),
           per_topic)

\* empties.update({business_id: topic}): one value for each key
EmptiesUpdate(dict, business_id, topic) ==
  IF \E k \in DOMAIN dict : dict[k].business_id = business_id
  THEN [k \in DOMAIN dict |->
          IF dict[k].business_id = business_id
          THEN [business_id |-> business_id, topic |-> topic] ELSE dict[k]]
  ELSE Append(dict, [business_id |-> business_id, topic |-> topic])

\* for k, v in empties: iterating a dict yields its keys, and a key unpacks
\* into k, v when it is a string of two characters
UnpackRaises(dict) == \E k \in DOMAIN dict : Len(dict[k].business_id) # 2

\* Where the loops go after a topic with the files read again for each topic.
AfterTopicReload(topics_rest, pairs_rest) ==
  IF topics_rest # <<>> \/ pairs_rest # <<>> THEN "load" ELSE "report"

\* Where the nested loops go after a topic: the topic loop is inside the
\* loop over index_pairs, below the two reads, so the next topic is searched
\* in the index already read; the files of the next pair are read when the
\* topics are exhausted.
AfterTopic(topics_rest, pairs_rest) ==
  IF topics_rest # <<>> THEN "search"
  ELSE IF pairs_rest # <<>> THEN "load" ELSE "report"

\* The locals of retrieve_topic_relevant_text before its first statement
PassStart ==
  /\ index_pairs = <<>>
  /\ query_embed = <<>>
  /\ query_with = NoSettings
  /\ pairs_todo = <<>>
  /\ index = <<>>
  /\ meta = <<>>
  /\ topics_todo = <<>>
  /\ result_df = <<>>
  /\ empties = <<>>
  /\ searched = <<>>
  /\ loaded = <<>>
  /\ ret_pc = "pairs"
  /\ ret_failure = "none"

\* The values of config.py are fixed for the process; they are not validated.
\* The index directory was written by a build given one of `settings`.
RetrieverStart(settings) ==
  /\ stage = "retriever"
  /\ ChunkerIdle
  /\ chunks_df = <<>>
  /\ embeddings = <<>>
  /\ todo = <<>>
  /\ build_pc = "idle"
  /\ written = {}
  /\ built = {}
  /\ failure = "none"
  /\ embedding_model_name = EMBEDDING_MODEL_NAME
  /\ normalize_embeddings = NORMALIZE_EMBEDDINGS
  /\ \E d \in RetrieverDirs, s \in settings :
       /\ faiss_files = d.faiss /\ meta_files = d.meta
       /\ built_with = BuiltWith(d.faiss, s)
  /\ top_k_per_topic \in 1..MaxTopK
  /\ max_chunks_per_topic \in 0..MaxPerTopic
  /\ max_chunks_per_review \in 0..MaxPerReview
  /\ tie_order \in {"kept", "swapped"}
  /\ PassStart
  /\ output = AbsentFile
  /\ pass = "first"
  /\ first_pass = NoPass
  /\ DirectoryIdle
  /\ PipelineIdle

\* The build ran with the values of config.py
InitRetriever == RetrieverStart({ConfigSettings})

\* The build ran with any arguments its constructor takes
InitRetrieverOverrides == RetrieverStart(BuildSettings)

\* index_pairs = self.get_index_files_with_metadata(): every index file has
\* its metadata file.
GetIndexFilesWithMetadata ==
  /\ stage = "retriever" /\ ret_pc = "pairs"
  /\ \E listing \in GlobListings(faiss_files) :
       LET faiss_files_list == SortedPaths(listing)
       IN  /\ \A i \in DOMAIN faiss_files_list :
                meta_files[faiss_files_list[i]].state # "absent"
           /\ index_pairs' = faiss_files_list
  /\ ret_pc' = "encode"
  /\ UNCHANGED <<stage, pipelineVars, chunkerVars, builderVars, directoryVars, query_with,
                 top_k_per_topic,
                 max_chunks_per_topic, max_chunks_per_review, tie_order,
                 query_embed, pairs_todo, index, meta, topics_todo, result_df,
                 empties, searched, loaded, output, ret_failure, pass, first_pass>>

\* get_index_files_with_metadata raises KeyError at the first index file
\* without a metadata file; nothing catches it.
GetIndexFilesWithMetadataRaises ==
  /\ stage = "retriever" /\ ret_pc = "pairs"
  /\ \E listing \in GlobListings(faiss_files) :
       LET faiss_files_list == SortedPaths(listing)
       IN  \E i \in DOMAIN faiss_files_list :
             meta_files[faiss_files_list[i]].state = "absent"
  /\ ret_pc' = "aborted"
  /\ ret_failure' = "KeyError"
  /\ UNCHANGED <<stage, pipelineVars, chunkerVars, builderVars, directoryVars, query_with,
                 top_k_per_topic,
                 max_chunks_per_topic, max_chunks_per_review, tie_order,
                 index_pairs, query_embed, pairs_todo, index, meta, topics_todo,
                 result_df, empties, searched, loaded, output, pass, first_pass>>

\* query_embed = self.encode_query_topics(); result_df and empties are
\* created and the loop over index_pairs is entered.
EncodeQueryTopics ==
  /\ stage = "retriever" /\ ret_pc = "encode"
  /\ query_embed' = QueryVectors
  /\ query_with' = QuerySettings
  /\ pairs_todo' = index_pairs
  /\ ret_pc' = IF index_pairs = <<>> THEN "report" ELSE "load"
  /\ UNCHANGED <<stage, pipelineVars, chunkerVars, builderVars, directoryVars,
                 top_k_per_topic,
                 max_chunks_per_topic, max_chunks_per_review, tie_order,
                 index_pairs, index, meta, topics_todo, result_df, empties,
                 searched, loaded, output, ret_failure, pass, first_pass>>

\* index = faiss.read_index(...); meta = pd.read_parquet(...)
ReadIndexAndMetadata ==
  /\ stage = "retriever" /\ ret_pc = "load"
  /\ LET business_id == Head(pairs_todo)
     IN  /\ faiss_files[business_id].state = "complete"
         /\ meta_files[business_id].state = "complete"
         /\ index' = faiss_files[business_id].content
         /\ meta' = meta_files[business_id].content
         /\ loaded' = Append(loaded, business_id)
  /\ topics_todo' = TopicSeq
  /\ ret_pc' = "search"
  /\ UNCHANGED <<stage, pipelineVars, chunkerVars, builderVars, directoryVars, query_with,
                 top_k_per_topic,
                 max_chunks_per_topic, max_chunks_per_review, tie_order,
                 index_pairs, query_embed, pairs_todo, result_df, empties,
                 searched, output, ret_failure, pass, first_pass>>

\* faiss.read_index or pd.read_parquet raises on a file that was cut short.
ReadIndexAndMetadataRaises ==
  /\ stage = "retriever" /\ ret_pc = "load"
  /\ LET business_id == Head(pairs_todo)
     IN  \/ faiss_files[business_id].state = "partial"
         \/ meta_files[business_id].state = "partial"
  /\ ret_pc' = "aborted"
  /\ ret_failure' = "io"
  /\ UNCHANGED <<stage, pipelineVars, chunkerVars, builderVars, directoryVars, query_with,
                 top_k_per_topic,
                 max_chunks_per_topic, max_chunks_per_review, tie_order,
                 index_pairs, query_embed, pairs_todo, index, meta, topics_todo,
                 result_df, empties, searched, loaded, output, pass, first_pass>>

\* One pass through the body of the loop over config.TOPICS.keys(), and the
\* step of the outer loop when it was the last topic.
SearchTopic ==
  /\ stage = "retriever" /\ ret_pc = "search"
  /\ LET business_id == Head(pairs_todo)
         topic == Head(topics_todo)
         hits == IndexSearch(index, query_embed[topic], top_k_per_topic)
         df == ConvertSimilarityArraysToDf(hits, meta, tie_order,
                                           max_chunks_per_review)
     IN  /\ IlocInBounds(hits, meta)
         /\ empties' = IF df = <<>> THEN EmptiesUpdate(empties, business_id, topic)
                       ELSE empties
         /\ result_df' = result_df \o TopicRows(hits, meta, tie_order,
                                                max_chunks_per_review,
                                                max_chunks_per_topic, topic)
         /\ searched' = Append(searched, <<business_id, topic>>)
  /\ topics_todo' = Tail(topics_todo)
  /\ pairs_todo' = IF Tail(topics_todo) = <<>> THEN Tail(pairs_todo) ELSE pairs_todo
  /\ ret_pc' = AfterTopic(Tail(topics_todo), Tail(pairs_todo))
  /\ UNCHANGED <<stage, pipelineVars, chunkerVars, builderVars, directoryVars, query_with,
                 top_k_per_topic,
                 max_chunks_per_topic, max_chunks_per_review, tie_order,
                 index_pairs, query_embed, index, meta, loaded, output,
                 ret_failure, pass, first_pass>>

\* metadata.iloc[...] raises IndexError inside
\* convert_similarity_arrays_to_df; nothing catches it.
SearchTopicRaises ==
  /\ stage = "retriever" /\ ret_pc = "search"
  /\ ~IlocInBounds(IndexSearch(index, query_embed[Head(topics_todo)],
                               top_k_per_topic), meta)
  /\ ret_pc' = "aborted"
  /\ ret_failure' = "IndexError"
  /\ UNCHANGED <<stage, pipelineVars, chunkerVars, builderVars, directoryVars, query_with,
                 top_k_per_topic,
                 max_chunks_per_topic, max_chunks_per_review, tie_order,
                 index_pairs, query_embed, pairs_todo, index, meta, topics_todo,
                 result_df, empties, searched, loaded, output, pass, first_pass>>

\* The shape and the empties are printed, result_df is written, True is
\* returned.
ReportAndWrite ==
  /\ stage = "retriever" /\ ret_pc = "report"
  /\ empties # <<>> => ~UnpackRaises(empties)
  /\ output' = CompleteFile(result_df)
  /\ ret_pc' = "done"
  /\ UNCHANGED <<stage, pipelineVars, chunkerVars, builderVars, directoryVars, query_with,
                 top_k_per_topic,
                 max_chunks_per_topic, max_chunks_per_review, tie_order,
                 index_pairs, query_embed, pairs_todo, index, meta, topics_todo,
                 result_df, empties, searched, loaded, ret_failure, pass,
                 first_pass>>

\* `for k,v in empties` raises ValueError before result_df is written.
ReportRaises ==
  /\ stage = "retriever" /\ ret_pc = "report"
  /\ empties # <<>> /\ UnpackRaises(empties)
  /\ ret_pc' = "aborted"
  /\ ret_failure' = "ValueError"
  /\ UNCHANGED <<stage, pipelineVars, chunkerVars, builderVars, directoryVars, query_with,
                 top_k_per_topic,
                 max_chunks_per_topic, max_chunks_per_review, tie_order,
                 index_pairs, query_embed, pairs_todo, index, meta, topics_todo,
                 result_df, empties, searched, loaded, output, pass, first_pass>>

\* retrieve_topic_relevant_text is called a second time in the same process,
\* over the same directory; its locals are new.
RunAgain ==
  /\ stage = "retriever" /\ ret_pc \in {"done", "aborted"}
  /\ pass = "first"
  /\ pass' = "second"
  /\ first_pass' = [pc |-> ret_pc, failure |-> ret_failure, result_df |-> result_df]
  /\ index_pairs' = <<>>
  /\ query_embed' = <<>>
  /\ pairs_todo' = <<>>
  /\ index' = <<>>
  /\ meta' = <<>>
  /\ topics_todo' = <<>>
  /\ result_df' = <<>>
  /\ empties' = <<>>
  /\ searched' = <<>>
  /\ loaded' = <<>>
  /\ ret_pc' = "pairs"
  /\ ret_failure' = "none"
  /\ query_with' = NoSettings
  /\ UNCHANGED <<stage, pipelineVars, chunkerVars, builderVars, directoryVars,
                 top_k_per_topic,
                 max_chunks_per_topic, max_chunks_per_review, tie_order, output>>

NextRetriever ==
  \/ GetIndexFilesWithMetadata
  \/ GetIndexFilesWithMetadataRaises
  \/ EncodeQueryTopics
  \/ ReadIndexAndMetadata
  \/ ReadIndexAndMetadataRaises
  \/ SearchTopic
  \/ SearchTopicRaises
  \/ ReportAndWrite
  \/ ReportRaises
  \/ RunAgain

SpecRetriever == InitRetriever /\ [][NextRetriever]_vars

SpecRetrieverOverrides == InitRetrieverOverrides /\ [][NextRetriever]_vars

----------------------------------------------------------------------------
(* Retriever claims *)

\* The rows of the combined table for one (entity, topic) pair, and the
\* top-K hits of the pair joined to the entity's persisted metadata.
ResultSet(business_id, topic) ==
  SelectSeq(result_df,
            LAMBDA row : row.topic = topic /\ row.business_id = business_id)
HitsOf(business_id, topic) ==
  JoinMetadata(IndexSearch(faiss_files[business_id].content, QueryVectors[topic],
                           top_k_per_topic),
               meta_files[business_id].content)
SameHit(row, hit) ==
  /\ row.chunk_id = hit.chunk_id
  /\ row.scores = hit.scores
  /\ row.indicies = hit.indicies

\* C13: in every (entity, topic) result set no review_id appears more than
\* MAX_CHUNKS_PER_REVIEW times, and the chunks kept for a review are that
\* review's highest-scoring chunks among the top-K search hits: every kept
\* row is a hit, and a hit of the same review that scores higher than a kept
\* row is kept too.
C13_PerReviewLimit ==
  \A i \in DOMAIN searched :
    LET rs == ResultSet(searched[i][1], searched[i][2])
        hits == HitsOf(searched[i][1], searched[i][2])
    IN  /\ \A j \in DOMAIN rs :
             Cardinality({m \in DOMAIN rs : rs[m].review_id = rs[j].review_id})
               <= max_chunks_per_review
        /\ \A j \in DOMAIN rs : \E h \in DOMAIN hits : SameHit(rs[j], hits[h])
        /\ \A j \in DOMAIN rs : \A h \in DOMAIN hits :
             (hits[h].review_id = rs[j].review_id /\ hits[h].scores > rs[j].scores)
               => \E m \in DOMAIN rs : SameHit(rs[m], hits[h])

\* C13 witness: a finished pass with a pair in which two chunks of one review
\* were hits with different scores, and the result set holds the review once.
C13_Witness ==
  /\ ret_pc = "done"
  /\ \E i \in DOMAIN searched :
       LET rs == ResultSet(searched[i][1], searched[i][2])
           hits == HitsOf(searched[i][1], searched[i][2])
       IN  /\ \E a, b \in DOMAIN hits :
                /\ hits[a].review_id = hits[b].review_id
                /\ hits[a].indicies >= 0 /\ hits[b].indicies >= 0
                /\ hits[a].scores > hits[b].scores
                /\ \E j \in DOMAIN rs : SameHit(rs[j], hits[a])
           /\ Len(rs) = 1

\* C14: every (entity, topic) result set of the combined output table has at
\* most MAX_CHUNKS_PER_TOPIC rows.
C14_PerTopicCap ==
  \A e \in RestaurantIds : \A t \in DOMAIN TOPICS :
    /\ Len(ResultSet(e, t)) <= max_chunks_per_topic
    /\ output.state = "complete" =>
         Len(SelectSeq(output.content,
                       LAMBDA row : row.topic = t /\ row.business_id = e))
           <= max_chunks_per_topic

\* C14 witness: the table was written after a pair whose hits, one chunk for
\* each review, were more than the cap, and the cap is not zero.
C14_Witness ==
  /\ ret_pc = "done" /\ output.state = "complete"
  /\ max_chunks_per_topic > 0
  /\ \E i \in DOMAIN searched :
       /\ Len(GroupbyHead(HitsOf(searched[i][1], searched[i][2]),
                          max_chunks_per_review)) > max_chunks_per_topic
       /\ Len(ResultSet(searched[i][1], searched[i][2])) = max_chunks_per_topic

\* C15: at the end of the loops of a retrieval pass, every (entity, topic)
\* pair whose result set is empty is in the diagnostic list `empties`, for
\* any number of empty pairs, several empty topics of one entity included;
\* stated for a positive MAX_CHUNKS_PER_TOPIC.
C15_EmptyPairsInDiagnostics ==
  (ret_pc = "report" /\ max_chunks_per_topic > 0) =>
    \A i \in DOMAIN searched :
      ResultSet(searched[i][1], searched[i][2]) = <<>> =>
        \E k \in DOMAIN empties :
          /\ empties[k].business_id = searched[i][1]
          /\ empties[k].topic = searched[i][2]

\* C16: a retrieval pass in which one or more (entity, topic) pairs have an
\* empty result runs to completion: a pass that has processed all pairs and
\* has a non-empty diagnostic list ends by writing the combined table.
C16_EmptyPairsDoNotAbort ==
  (/\ ret_pc \in {"done", "aborted"}
   /\ pairs_todo = <<>> /\ topics_todo = <<>> /\ searched # <<>>
   /\ empties # <<>>) =>
    (ret_pc = "done" /\ output = CompleteFile(result_df))

\* An entity whose index file and metadata file are both whole and agree in
\* the number of rows
ValidPair(business_id) ==
  /\ faiss_files[business_id].state = "complete"
  /\ meta_files[business_id].state = "complete"
  /\ Len(faiss_files[business_id].content) = Len(meta_files[business_id].content)

\* C17: when entity A's index file has no paired metadata file, retrieval
\* fails for A only: at the end of the pass the rows of every other entity B
\* with a valid pair are in the output (the limits being positive).
C17_MissingMetadataIsolated ==
  (/\ ret_pc \in {"done", "aborted"}
   /\ max_chunks_per_review > 0 /\ max_chunks_per_topic > 0) =>
    \A A, B \in RestaurantIds :
      (/\ A # B
       /\ faiss_files[A].state = "complete" /\ meta_files[A].state = "absent"
       /\ ValidPair(B)) =>
        /\ output.state = "complete"
        /\ \E j \in DOMAIN output.content : output.content[j].business_id = B

C20_DescendingStableOrder ==
  \A i \in DOMAIN searched :
    LET rs == ResultSet(searched[i][1], searched[i][2])
        hits == HitsOf(searched[i][1], searched[i][2])
    IN  \A j, m \in DOMAIN rs :
          j < m =>
            /\ rs[j].scores >= rs[m].scores
            /\ rs[j].scores = rs[m].scores =>
                 \E a, b \in DOMAIN hits :
                   a < b /\ SameHit(rs[j], hits[a]) /\ SameHit(rs[m], hits[b])

\* C22: in one retrieval pass each entity's index and metadata are loaded
\* exactly once, before that entity's first topic query, and the loaded
\* index serves all topic queries of that entity.
C22_LoadedOncePerEntity ==
  /\ \A i, j \in DOMAIN loaded : i # j => loaded[i] # loaded[j]
  /\ \A i \in DOMAIN searched : \E j \in DOMAIN loaded : loaded[j] = searched[i][1]
  /\ ret_pc = "search" =>
       /\ loaded # <<>> /\ loaded[Len(loaded)] = Head(pairs_todo)
       /\ index = faiss_files[Head(pairs_todo)].content
       /\ meta = meta_files[Head(pairs_todo)].content
  /\ ret_pc \in {"report", "done"} =>
       /\ loaded = index_pairs
       /\ Len(searched) = Len(index_pairs) * Len(TopicSeq)

\* C22 witness: a pass over two entities has ended, every topic of both
\* searched.
C22_Witness ==
  /\ ret_pc = "done"
  /\ Len(loaded) = Len(RestaurantSeq)
  /\ Len(searched) = Len(RestaurantSeq) * Len(TopicSeq)

\* C23: every row of an (entity, topic) result set is joined to the metadata
\* row at a vector position p with 0 <= p < N that the search returned as a
\* real hit; the placeholder positions (-1) of an index with fewer than
\* TOP_K_PER_TOPIC vectors produce no result row, and no chunk_id appears
\* twice in a result set.
C23_NoPlaceholderRows ==
  \A i \in DOMAIN searched :
    LET rs == ResultSet(searched[i][1], searched[i][2])
        N == Len(faiss_files[searched[i][1]].content)
    IN  /\ \A j \in DOMAIN rs : 0 <= rs[j].indicies /\ rs[j].indicies < N
        /\ \A j, m \in DOMAIN rs : j # m => rs[j].chunk_id # rs[m].chunk_id

\* The number of hits the per-review limit n lets through: for each review,
\* its hits up to n of them
PerReviewCount(hits, n) ==
  LET count(r) == Cardinality({h \in DOMAIN hits : hits[h].review_id = r})
  IN  Cardinality({p \in {hits[h].review_id : h \in DOMAIN hits} \X (1..Len(hits)) :
                     p[2] <= n /\ p[2] <= count(p[1])})

\* C24: the per-review limit is applied before the per-topic cap: a result
\* set has as many rows as the cap allows of the hits the per-review limit
\* lets through, so a review's surplus chunks use up no slot of the cap, and
\* no hit left out scores higher than a row of its review that was kept.
C24_ReviewLimitBeforeCap ==
  \A i \in DOMAIN searched :
    LET rs == ResultSet(searched[i][1], searched[i][2])
        hits == HitsOf(searched[i][1], searched[i][2])
    IN  /\ Len(rs) = Min(max_chunks_per_topic,
                        PerReviewCount(hits, max_chunks_per_review))
        /\ \A j, m \in DOMAIN rs : j < m => rs[j].scores >= rs[m].scores

\* C24 witness: a finished pass with a pair in which a hit among the first
\* MAX_CHUNKS_PER_TOPIC of the score-ordered list was dropped as its review's
\* surplus, and the result set is full all the same.
C24_Witness ==
  /\ ret_pc = "done"
  /\ max_chunks_per_topic > 0
  /\ \E i \in DOMAIN searched :
       LET rs == ResultSet(searched[i][1], searched[i][2])
           sorted == SortValues(HitsOf(searched[i][1], searched[i][2]), tie_order)
       IN  /\ Len(rs) = max_chunks_per_topic
           /\ Len(sorted) > max_chunks_per_topic
           /\ \E b \in 1..max_chunks_per_topic :
                \A j \in DOMAIN rs : ~SameHit(rs[j], sorted[b])

----------------------------------------------------------------------------
\* C21: in every retrieval pass, over an index directory written by a build
\* given any constructor arguments, the topic query vectors are embedded
\* with the model and the normalization setting that the vectors of every
\* index searched were embedded with.
C21_QueryEmbeddedAsIndex ==
  \A i \in DOMAIN searched : built_with[searched[i][1]] = query_with

(* BuildDirectoryStructure: clean_index_directory *)

\* The entries a directory can hold: the name of an entry is stem \o suffix
\* (Path.suffix is "" for a name without a dot), its kind says whether
\* Path.is_file() is true of it.
EntryUniverse ==
  { [stem |-> "biz1",      suffix |-> ".faiss",   kind |-> "file"],
    [stem |-> "biz1_meta", suffix |-> ".parquet", kind |-> "file"],
    [stem |-> "README",    suffix |-> ".md",      kind |-> "file"],
    [stem |-> "LICENSE",   suffix |-> "",         kind |-> "file"],
    [stem |-> "shards",    suffix |-> ".faiss",   kind |-> "dir"],
    [stem |-> "archive",   suffix |-> "",         kind |-> "dir"] }

\* The contents of a directory of at most MaxEntries entries
DirContents == {c \in SUBSET EntryUniverse : Cardinality(c) <= MaxEntries}

\* The values index_extensions can be given in the constructor call
ExtensionOverrides == {{".faiss"}, {".faiss", ".parquet", ".md"}}

\* BuildDirectoryStructure(index_data_path = ..., index_extensions = ...):
\* an argument that is None takes the value of config.py.
InitDirectory ==
  /\ stage = "directory"
  /\ ChunkerIdle
  /\ BuilderIdle
  /\ RetrieverIdle
  /\ index_data_path \in DirPaths
  /\ index_extensions \in {INDEX_EXTENSIONS} \cup ExtensionOverrides
  /\ \E c \in DirContents, d \in DirContents :
       /\ index_data_path = INDEX_DIR => d = {}
       /\ dirs = [p \in DirPaths |-> IF p = INDEX_DIR THEN c ELSE d]
  /\ dirs_before = dirs
  /\ to_visit = {}
  /\ clean_pc = "ready"
  /\ PipelineIdle

\* for file in Path(config.INDEX_DIR).iterdir(): the loop is entered
IterdirIndexDir ==
  /\ stage = "directory" /\ clean_pc = "ready"
  /\ to_visit' = dirs[INDEX_DIR]
  /\ clean_pc' = "loop"
  /\ UNCHANGED <<stage, pipelineVars, chunkerVars, builderVars, retrieverVars, index_data_path,
                 index_extensions, dirs, dirs_before>>

\* file.is_file() and file.suffix in self.index_extensions: file.unlink()
UnlinkFile ==
  /\ stage = "directory" /\ clean_pc = "loop"
  /\ \E file \in to_visit :
       /\ file.kind = "file"
       /\ file.suffix \in index_extensions
       /\ dirs' = [dirs EXCEPT ![INDEX_DIR] = @ \ {file}]
       /\ to_visit' = to_visit \ {file}
  /\ UNCHANGED <<stage, pipelineVars, chunkerVars, builderVars, retrieverVars, index_data_path,
                 index_extensions, dirs_before, clean_pc>>

\* An entry that is not a file, or a file with another suffix, is passed over
SkipEntry ==
  /\ stage = "directory" /\ clean_pc = "loop"
  /\ \E file \in to_visit :
       /\ ~(file.kind = "file" /\ file.suffix \in index_extensions)
       /\ to_visit' = to_visit \ {file}
  /\ UNCHANGED <<stage, pipelineVars, chunkerVars, builderVars, retrieverVars, index_data_path,
                 index_extensions, dirs, dirs_before, clean_pc>>

\* The iterator is exhausted and clean_index_directory returns
CleanReturns ==
  /\ stage = "directory" /\ clean_pc = "loop"
  /\ to_visit = {}
  /\ clean_pc' = "done"
  /\ UNCHANGED <<stage, pipelineVars, chunkerVars, builderVars, retrieverVars, index_data_path,
                 index_extensions, dirs, dirs_before, to_visit>>

NextDirectory ==
  \/ IterdirIndexDir
  \/ UnlinkFile
  \/ SkipEntry
  \/ CleanReturns

SpecDirectory == InitDirectory /\ [][NextDirectory]_vars

\* C19: clean_index_directory deletes every regular file of the object's
\* index directory whose suffix is one of index_extensions and leaves every
\* other file and every subdirectory of it unchanged.
C19_CleanIndexDirectory ==
  clean_pc = "done" =>
    dirs[index_data_path] =
      {e \in dirs_before[index_data_path] :
         ~(e.kind = "file" /\ e.suffix \in index_extensions)}

----------------------------------------------------------------------------
(* The whole model: a behaviour runs one of the components *)

-----------------------------------------------------------------------------
(* YelpRAGPipelineRunner: run_pipeline *)

\* The largest random_state a call is given
MaxSeed == 1

\* A def statement: the names a call may pass by keyword (self left out) and
\* those among them without a default value
Signature(params, required) == [params |-> params, required |-> required]

\* Python binds a call made with keyword arguments only when every keyword
\* names a parameter and every parameter without a default is given;
\* otherwise the call raises TypeError before the body runs.
Binds(sig, keywords) ==
  /\ keywords \subseteq sig.params
  /\ sig.required \subseteq keywords

RunPipelineSignature == Signature({"random_state", "status_cb"}, {"random_state"})

\* run_pipeline(random_state = ...), run_pipeline(random_state = ..., status_cb = ...)
\* and the call of app.py
CallerKeywords ==
  { {"random_state"}, {"random_state", "status_cb"},
    {"random_state", "n_restaurants", "status_cb"} }

ImportInitSignature ==
  Signature({"raw_data_path", "sampled_data_path", "n_import_rows",
             "col_business_category", "col_restaurant_id", "col_review_id",
             "min_reviews", "n_restaurants"}, {})
GenerateFinalRestaurantListSignature == Signature({}, {})
CleanInitSignature ==
  Signature({"sampled_data_path", "processed_data_path", "col_text",
             "min_review_chars", "overlap_chars", "chunk_chars", "min_chunk_chars",
             "col_restaurant_id", "col_review_id", "col_restaurant_name",
             "col_stars", "col_date", "parquet_engine"}, {})
CleanChunkExportSignature == Signature({}, {})
EmbeddingsInitSignature ==
  Signature({"processed_data_path", "index_path", "embedding_model_name",
             "embed_device", "embed_batch_size", "col_restaurant_id",
             "index_metric", "normalize_embeddings", "parquet_engine"}, {})
CreateFaissSignature == Signature({}, {})
RetrievalInitSignature ==
  Signature({"processed_data_path", "index_path"}, {"processed_data_path", "index_path"})
RetrieveTopicRelevantTextSignature == Signature({}, {})
SummarizationInitSignature ==
  Signature({"processed_data_path", "col_restaurant_id", "topics", "ollama_model",
             "temperature", "ollama_base_url", "parquet_engine"}, {})
SummarizeRelevantReviewTextSignature == Signature({}, {})

\* A call of the body of run_pipeline: the constructor of a stage's class
\* ("construct") or the method that does the stage's work ("run")
Call(stage_name, kind, sig, keywords) ==
  [stage |-> stage_name, kind |-> kind, sig |-> sig, keywords |-> keywords]

\* The calls of the body of run_pipeline, in the order of its statements
PipelineCalls ==
  << Call("import_sample", "construct", ImportInitSignature, {}),
     Call("import_sample", "run", GenerateFinalRestaurantListSignature, {"random_state"}),
     Call("clean_chunk", "construct", CleanInitSignature,
          {"sampled_data_path", "processed_data_path"}),
     Call("clean_chunk", "run", CleanChunkExportSignature, {}),
     Call("embed_index", "construct", EmbeddingsInitSignature, {"processed_data_path"}),
     Call("embed_index", "run", CreateFaissSignature, {}),
     Call("retrieve", "construct", RetrievalInitSignature, {}),
     Call("retrieve", "run", RetrieveTopicRelevantTextSignature, {}),
     Call("summarize", "construct", SummarizationInitSignature, {}),
     Call("summarize", "run", SummarizeRelevantReviewTextSignature, {"status_cb"}) >>

\* What a call that was bound can end with: a constructor only stores its
\* arguments; a stage method reads and writes files.
Outcomes(kind) == IF kind = "run" THEN {"returns", "data", "io"} ELSE {"returns"}

\* runner.run_pipeline(...) is about to be called; earlier runs may have left
\* the output of any stage on disk.
InitPipeline ==
  /\ stage = "pipeline"
  /\ ChunkerIdle
  /\ BuilderIdle
  /\ RetrieverIdle
  /\ DirectoryIdle
  /\ random_state \in 0..MaxSeed
  /\ call_keywords \in CallerKeywords
  /\ stage_outputs \in SUBSET Stages
  /\ pipe_pc = 0
  /\ pipe_status = "called"
  /\ pipe_error = "none"
  /\ completed = <<>>

\* def run_pipeline(self, random_state, status_cb = None): the call is bound
EnterRunPipeline ==
  /\ stage = "pipeline" /\ pipe_status = "called"
  /\ Binds(RunPipelineSignature, call_keywords)
  /\ pipe_status' = "running"
  /\ pipe_pc' = 1
  /\ UNCHANGED <<stage, chunkerVars, builderVars, retrieverVars, directoryVars,
                 random_state, call_keywords, stage_outputs, pipe_error, completed>>

\* The call passes a keyword run_pipeline does not take: TypeError
RunPipelineCallRaises ==
  /\ stage = "pipeline" /\ pipe_status = "called"
  /\ ~Binds(RunPipelineSignature, call_keywords)
  /\ pipe_status' = "raised"
  /\ pipe_error' = "TypeError"
  /\ UNCHANGED <<stage, chunkerVars, builderVars, retrieverVars, directoryVars,
                 random_state, call_keywords, stage_outputs, pipe_pc, completed>>

\* The next call of the body is bound and runs: it returns, and the next
\* statement follows, or it raises and the exception leaves run_pipeline.
StageCall ==
  /\ stage = "pipeline" /\ pipe_status = "running"
  /\ LET call == PipelineCalls[pipe_pc]
     IN  /\ Binds(call.sig, call.keywords)
         /\ \E outcome \in Outcomes(call.kind) :
              IF outcome = "returns"
              THEN /\ pipe_pc' = pipe_pc + 1
                   /\ pipe_status' = IF pipe_pc = Len(PipelineCalls)
                                     THEN "complete" ELSE "running"
                   /\ completed' = IF call.kind = "run"
                                   THEN Append(completed, call.stage) ELSE completed
                   /\ stage_outputs' = IF call.kind = "run"
                                       THEN stage_outputs \cup {call.stage}
                                       ELSE stage_outputs
                   /\ UNCHANGED pipe_error
              ELSE /\ pipe_status' = "raised"
                   /\ pipe_error' = outcome
                   /\ UNCHANGED <<pipe_pc, completed, stage_outputs>>
  /\ UNCHANGED <<stage, chunkerVars, builderVars, retrieverVars, directoryVars,
                 random_state, call_keywords>>

\* The next call of the body is not bound: TypeError leaves run_pipeline
StageCallRaises ==
  /\ stage = "pipeline" /\ pipe_status = "running"
  /\ ~Binds(PipelineCalls[pipe_pc].sig, PipelineCalls[pipe_pc].keywords)
  /\ pipe_status' = "raised"
  /\ pipe_error' = "TypeError"
  /\ UNCHANGED <<stage, chunkerVars, builderVars, retrieverVars, directoryVars,
                 random_state, call_keywords, stage_outputs, pipe_pc, completed>>

NextPipeline ==
  \/ EnterRunPipeline
  \/ RunPipelineCallRaises
  \/ StageCall
  \/ StageCallRaises

\* run_pipeline is one thread of straight-line code: a statement that can
\* run does run.
SpecPipeline == InitPipeline /\ [][NextPipeline]_vars /\ WF_vars(NextPipeline)

-----------------------------------------------------------------------------
(* Pipeline claims *)

IsPrefix(s, t) == Len(s) <= Len(t) /\ \A i \in DOMAIN s : s[i] = t[i]

\* C25: a call to run_pipeline runs the stages in the order import/sample,
\* clean/chunk, embed/index, retrieve, summarize, each after the one before
\* has returned, and it reaches the end of the summarize stage unless a stage
\* raises a data or I/O error.
C25_StagesInOrderToTheEnd ==
  /\ [](IsPrefix(completed, StageSeq))
  /\ <>(completed = StageSeq \/ pipe_error \in {"data", "io"})

-----------------------------------------------------------------------------
Init == InitChunker \/ InitBuilder \/ InitRetrieverOverrides \/ InitDirectory
          \/ InitPipeline
Next == NextChunker \/ NextBuilder \/ NextRetriever \/ NextDirectory \/ NextPipeline
Spec == Init /\ [][Next]_vars

====
